---- MODULE Spec2Model ----
(***************************************************************************)
(* The pairing and signaling-relay service of webrtc-intercom              *)
(* (src/server.js): the session store, the socket.io event handlers that   *)
(* read and mutate it, and the messages each handler emits.                *)
(*                                                                         *)
(* Every JavaScript value the handlers touch is modelled as a string: a    *)
(* socket id ("c1"), a token ("1000"), null ("null"), undefined            *)
(* ("undefined"), an sdp / candidate blob ("blobA").                       *)
(***************************************************************************)
EXTENDS Integers, Sequences, FiniteSets, TLC

VARIABLES
    conns,      \* socket id -> "new" (not yet connected) | "live" | "gone"
    sessions,   \* the Map `sessions`, as its entries in insertion order
    emitted,    \* the messages emitted by the handler that ran last, in order
    last,       \* the event that handler was invoked for
    prev,       \* `sessions` as that handler found it
    raised,     \* a handler threw (uncaught): the process is gone
    mon,        \* an observer of the events handled so far (see Observe)
    client      \* the page of one client (src/main.js), see ClientStart

vars == <<conns, sessions, emitted, last, prev, raised, mon, client>>

-----------------------------------------------------------------------------
(* Bounds *)

NumConns == 3       \* sockets that ever connect
NumTokens == 2      \* distinct values generateToken can draw
Slices == 3         \* instants told apart within the 3 s before the redirect
MaxRequests == 1    \* create-session requests of the page awaiting an answer
MaxTasks == 2       \* async handlers of the page between start and emit

(* Program constants *)

TokenBase == 1000   \* Math.floor(1000 + Math.random() * 9000)
TIMEOUT_DURATION == 60000   \* ms the page waits for a peer
RedirectDelay == 3000       \* ms from the timeout to the redirect

-----------------------------------------------------------------------------
(* JavaScript values *)

Null == "null"
Undefined == "undefined"
None == "none"      \* a field a message or an event does not carry

\* ToBoolean of the values that occur: null, undefined and "" are falsy,
\* a non-empty string (a socket id) is truthy.
Truthy(v) == v \notin {Null, Undefined, ""}

\* socket.id: a process-unique handle socket.io gives each connection.
SocketId(i) == "c" \o ToString(i)

Conns == {SocketId(i) : i \in 1..NumConns}

\* generateToken, on the draw k = floor(Math.random() * 9000).
generateToken(k) == ToString(TokenBase + k)

Draws == 0..(NumTokens - 1)

Tokens == {generateToken(k) : k \in Draws}

\* The opaque sdp / candidate blobs a client sends.
Blobs == {"blobA", "blobB"}

\* What a client can put in payload.target: any socket id, or nothing
\* (the field is missing), or an explicit null.
Targets == Conns \cup {Undefined}

FalsyTargets == {Undefined, Null}

\* What a client can send as the join-session argument.
JoinArgs == Tokens \cup {Undefined}

-----------------------------------------------------------------------------
(* The Map `sessions`: entries [token, host, guest] in insertion order *)

MapHas(m, k) == \E i \in 1..Len(m) : m[i].token = k

MapIndex(m, k) == CHOOSE i \in 1..Len(m) : m[i].token = k

\* Map.prototype.get: the value, or undefined.
MapGet(m, k) == IF MapHas(m, k) THEN m[MapIndex(m, k)] ELSE Undefined

\* Map.prototype.set: an existing key keeps its place and gets the new
\* value, a new key is appended.
MapSet(m, k, host, guest) ==
    LET e == [token |-> k, host |-> host, guest |-> guest]
    IN  IF MapHas(m, k)
        THEN [m EXCEPT ![MapIndex(m, k)] = e]
        ELSE Append(m, e)

\* Map.prototype.delete of the entry at position i.
MapDeleteAt(m, i) == SubSeq(m, 1, i - 1) \o SubSeq(m, i + 1, Len(m))

-----------------------------------------------------------------------------
(* Messages: socket.emit(event, ...) and io.to(id).emit(event, ...) *)

Msg(to, event, role, peerKey, peer, dataKey, data) ==
    [to |-> to, event |-> event, role |-> role,
     peerKey |-> peerKey, peer |-> peer, dataKey |-> dataKey, data |-> data]

Text(to, event, text) == Msg(to, event, None, None, None, "text", text)

Bare(to, event) == Msg(to, event, None, None, None, None, None)

Event(ev, conn, token, hasPayload, target, data) ==
    [ev |-> ev, conn |-> conn, token |-> token,
     hasPayload |-> hasPayload, target |-> target, data |-> data]

InvalidToken == "Invalid Token"
Evicted == "Another device connected. You have been disconnected."
HostLeft == "Host disconnected"

-----------------------------------------------------------------------------
(* The handlers, as functions of the store, the socket and the argument.    *)
(* Each returns the store it leaves (reg), the messages it emits in order   *)
(* (out) and whether it threw instead of returning (threw).                 *)

Result(reg, out) == [reg |-> reg, out |-> out, threw |-> FALSE]

Thrown(reg) == [reg |-> reg, out |-> <<>>, threw |-> TRUE]

\* A variant of create-session that, finding the token taken, keeps the
\* stored session and still answers session-created.
onCreateSession_KeepExisting(m, id, k) ==
    LET token == generateToken(k)
    IN  Result(IF MapHas(m, token) THEN m ELSE MapSet(m, token, id, Null),
               <<Msg(id, "session-created", None, None, None, "token", token)>>)

\* socket.on("create-session"), with k the draw of generateToken.
onCreateSession(m, id, k) ==
    LET token == generateToken(k)
    IN  Result(MapSet(m, token, id, Null),
               <<Msg(id, "session-created", None, None, None, "token", token)>>)

\* Variants of join-session, each with one slip.
\* The host is not told of the new guest.
onJoinSession_HostNotTold(m, id, token) ==
    IF MapHas(m, token)
    THEN LET session == MapGet(m, token)
             kick == IF Truthy(session.guest)
                     THEN <<Text(session.guest, "error", Evicted)>>
                     ELSE <<>>
         IN  Result(MapSet(m, token, session.host, id),
                    kick \o
                    <<Msg(id, "session-joined", "guest", "peerId", session.host,
                          None, None)>>)
    ELSE Result(m, <<Text(id, "error", InvalidToken)>>)

\* The single-guest-only policy: a paired session turns a second guest away.
onJoinSession_FirstWins(m, id, token) ==
    IF MapHas(m, token)
    THEN LET session == MapGet(m, token)
         IN  IF Truthy(session.guest)
             THEN Result(m, <<Text(id, "error", "Session is full")>>)
             ELSE Result(MapSet(m, token, session.host, id),
                         <<Msg(id, "session-joined", "guest", "peerId",
                               session.host, None, None),
                           Msg(session.host, "peer-joined", "host", "peerId", id,
                               None, None)>>)
    ELSE Result(m, <<Text(id, "error", InvalidToken)>>)

\* An unknown token is registered on the way to rejecting it.
onJoinSession_Upsert(m, id, token) ==
    IF MapHas(m, token)
    THEN LET session == MapGet(m, token)
             kick == IF Truthy(session.guest)
                     THEN <<Text(session.guest, "error", Evicted)>>
                     ELSE <<>>
         IN  Result(MapSet(m, token, session.host, id),
                    kick \o
                    <<Msg(id, "session-joined", "guest", "peerId", session.host,
                          None, None),
                      Msg(session.host, "peer-joined", "host", "peerId", id,
                          None, None)>>)
    ELSE Result(MapSet(m, token, Null, Null), <<Text(id, "error", InvalidToken)>>)

\* session.host = socket.id where session.guest was meant.
onJoinSession_SetsHost(m, id, token) ==
    IF MapHas(m, token)
    THEN LET session == MapGet(m, token)
             kick == IF Truthy(session.guest)
                     THEN <<Text(session.guest, "error", Evicted)>>
                     ELSE <<>>
         IN  Result(MapSet(m, token, id, session.guest),
                    kick \o
                    <<Msg(id, "session-joined", "guest", "peerId", session.host,
                          None, None),
                      Msg(session.host, "peer-joined", "host", "peerId", id,
                          None, None)>>)
    ELSE Result(m, <<Text(id, "error", InvalidToken)>>)

\* socket.on("join-session"). `if (session)` is MapHas: a stored session is
\* an object, and undefined is what get returns for any other key.
onJoinSession(m, id, token) ==
    IF MapHas(m, token)
    THEN LET session == MapGet(m, token)
             kick == IF Truthy(session.guest)
                     THEN <<Text(session.guest, "error", Evicted)>>
                     ELSE <<>>
         IN  Result(MapSet(m, token, session.host, id),
                    kick \o
                    <<Msg(id, "session-joined", "guest", "peerId", session.host,
                          None, None),
                      Msg(session.host, "peer-joined", "host", "peerId", id,
                          None, None)>>)
    ELSE Result(m, <<Text(id, "error", InvalidToken)>>)

\* A relay payload as the handler receives it: no argument at all
\* (present = FALSE: `payload` is undefined), or an object whose target and
\* sdp / candidate fields may each be missing.
NoPayload == [present |-> FALSE, target |-> Undefined, data |-> Undefined]

\* offer, answer, ice-candidate: { target, sdp } / { target, candidate }
Payloads == {NoPayload} \cup [present : {TRUE}, target : Targets, data : Blobs]

\* hangup, open-door: { target }
TargetPayloads ==
    {NoPayload}
    \cup [present : {TRUE}, target : Targets \cup FalsyTargets, data : {Undefined}]

\* payload.target, payload.sdp, payload.candidate: reading a property of
\* undefined throws a TypeError.
\* A relay that looks the pair up: an offer is forwarded only between the
\* host and the guest of one session.
onOffer_PairedOnly(m, id, p) ==
    IF ~p.present THEN Thrown(m)
    ELSE IF \E i \in 1..Len(m) : {m[i].host, m[i].guest} = {id, p.target}
         THEN Result(m, <<Msg(p.target, "offer", None, "caller", id, "sdp", p.data)>>)
         ELSE Result(m, <<>>)

\* socket.on("offer")
onOffer(m, id, p) ==
    IF ~p.present THEN Thrown(m)
    ELSE Result(m, <<Msg(p.target, "offer", None, "caller", id, "sdp", p.data)>>)

\* The answer relayed under the offer's field name.
onAnswer_AsCaller(m, id, p) ==
    IF ~p.present THEN Thrown(m)
    ELSE Result(m, <<Msg(p.target, "answer", None, "caller", id, "sdp", p.data)>>)

\* socket.on("answer")
onAnswer(m, id, p) ==
    IF ~p.present THEN Thrown(m)
    ELSE Result(m, <<Msg(p.target, "answer", None, "responder", id, "sdp", p.data)>>)

\* socket.on("ice-candidate")
onIceCandidate(m, id, p) ==
    IF ~p.present THEN Thrown(m)
    ELSE Result(m, <<Msg(p.target, "ice-candidate", None, "sender", id,
                         "candidate", p.data)>>)

\* hangup forwarded like an offer, with no look at the target.
onHangup_NoCheck(m, id, p) ==
    IF ~p.present THEN Thrown(m)
    ELSE Result(m, <<Msg(p.target, "hangup", None, "sender", id, None, None)>>)

\* The destroy-on-hangup policy: a hangup by the host of a session removes it.
onHangup_TearsDown(m, id, p) ==
    IF ~p.present THEN Thrown(m)
    ELSE LET kept == SelectSeq(m, LAMBDA e : e.host # id)
         IN  IF Truthy(p.target)
             THEN Result(kept, <<Msg(p.target, "hangup", None, "sender", id,
                                     None, None)>>)
             ELSE Result(kept, <<>>)

\* socket.on("hangup")
onHangup(m, id, p) ==
    IF ~p.present THEN Thrown(m)
    ELSE IF Truthy(p.target)
         THEN Result(m, <<Msg(p.target, "hangup", None, "sender", id, None, None)>>)
         ELSE Result(m, <<>>)

\* socket.on("open-door")
onOpenDoor(m, id, p) ==
    IF ~p.present THEN Thrown(m)
    ELSE IF Truthy(p.target)
         THEN Result(m, <<Msg(p.target, "open-door", None, "sender", id, None, None)>>)
         ELSE Result(m, <<>>)

\* The loop of socket.on("disconnect") from entry i on: a Map iterator
\* visits the entries in insertion order, and deleting the entry it is on
\* does not make it skip the one that follows.
RECURSIVE Sweep(_, _, _, _)
Sweep(m, i, id, out) ==
    IF i > Len(m) THEN Result(m, out)
    ELSE LET session == m[i]
         IN  IF session.host = id
             THEN Sweep(MapDeleteAt(m, i), i, id,
                        out \o (IF Truthy(session.guest)
                                THEN <<Text(session.guest, "error", HostLeft),
                                       Bare(session.guest, "peer-disconnected")>>
                                ELSE <<>>))
             ELSE IF session.guest = id
             THEN Sweep([m EXCEPT ![i].guest = Null], i + 1, id,
                        Append(out, Bare(session.host, "peer-disconnected")))
             ELSE Sweep(m, i + 1, id, out)

\* The loop as over an array being spliced: after a delete the index moves
\* on and the entry that slid into the freed place is never visited.
RECURSIVE Sweep_SkipsAfterDelete(_, _, _, _)
Sweep_SkipsAfterDelete(m, i, id, out) ==
    IF i > Len(m) THEN Result(m, out)
    ELSE LET session == m[i]
         IN  IF session.host = id
             THEN Sweep_SkipsAfterDelete(MapDeleteAt(m, i), i + 1, id,
                        out \o (IF Truthy(session.guest)
                                THEN <<Text(session.guest, "error", HostLeft),
                                       Bare(session.guest, "peer-disconnected")>>
                                ELSE <<>>))
             ELSE IF session.guest = id
             THEN Sweep_SkipsAfterDelete([m EXCEPT ![i].guest = Null], i + 1, id,
                        Append(out, Bare(session.host, "peer-disconnected")))
             ELSE Sweep_SkipsAfterDelete(m, i + 1, id, out)

\* A guest that leaves takes the session with it.
RECURSIVE Sweep_GuestLeaves(_, _, _, _)
Sweep_GuestLeaves(m, i, id, out) ==
    IF i > Len(m) THEN Result(m, out)
    ELSE LET session == m[i]
         IN  IF session.host = id
             THEN Sweep_GuestLeaves(MapDeleteAt(m, i), i, id,
                        out \o (IF Truthy(session.guest)
                                THEN <<Text(session.guest, "error", HostLeft),
                                       Bare(session.guest, "peer-disconnected")>>
                                ELSE <<>>))
             ELSE IF session.guest = id
             THEN Sweep_GuestLeaves(MapDeleteAt(m, i), i, id,
                        Append(out, Bare(session.host, "peer-disconnected")))
             ELSE Sweep_GuestLeaves(m, i + 1, id, out)

\* The guest of a host that leaves is sent peer-disconnected alone.
RECURSIVE Sweep_NoError(_, _, _, _)
Sweep_NoError(m, i, id, out) ==
    IF i > Len(m) THEN Result(m, out)
    ELSE LET session == m[i]
         IN  IF session.host = id
             THEN Sweep_NoError(MapDeleteAt(m, i), i, id,
                        out \o (IF Truthy(session.guest)
                                THEN <<Bare(session.guest, "peer-disconnected")>>
                                ELSE <<>>))
             ELSE IF session.guest = id
             THEN Sweep_NoError([m EXCEPT ![i].guest = Null], i + 1, id,
                        Append(out, Bare(session.host, "peer-disconnected")))
             ELSE Sweep_NoError(m, i + 1, id, out)

\* The host of a guest that leaves is not told.
RECURSIVE Sweep_Silent(_, _, _, _)
Sweep_Silent(m, i, id, out) ==
    IF i > Len(m) THEN Result(m, out)
    ELSE LET session == m[i]
         IN  IF session.host = id
             THEN Sweep_Silent(MapDeleteAt(m, i), i, id,
                        out \o (IF Truthy(session.guest)
                                THEN <<Text(session.guest, "error", HostLeft),
                                       Bare(session.guest, "peer-disconnected")>>
                                ELSE <<>>))
             ELSE IF session.guest = id
             THEN Sweep_Silent([m EXCEPT ![i].guest = Null], i + 1, id, out)
             ELSE Sweep_Silent(m, i + 1, id, out)

\* The guest of every session is told when any connection leaves.
RECURSIVE Sweep_Broadcast(_, _, _, _)
Sweep_Broadcast(m, i, id, out) ==
    IF i > Len(m) THEN Result(m, out)
    ELSE LET session == m[i]
         IN  IF session.host = id
             THEN Sweep_Broadcast(MapDeleteAt(m, i), i, id,
                        out \o (IF Truthy(session.guest)
                                THEN <<Text(session.guest, "error", HostLeft),
                                       Bare(session.guest, "peer-disconnected")>>
                                ELSE <<>>))
             ELSE IF session.guest = id
             THEN Sweep_Broadcast([m EXCEPT ![i].guest = Null], i + 1, id,
                        Append(out, Bare(session.host, "peer-disconnected")))
             ELSE Sweep_Broadcast(m, i + 1, id,
                        IF Truthy(session.guest)
                        THEN Append(out, Bare(session.guest, "peer-disconnected"))
                        ELSE out)

onDisconnect_GuestLeaves(m, id) == Sweep_GuestLeaves(m, 1, id, <<>>)

onDisconnect_NoError(m, id) == Sweep_NoError(m, 1, id, <<>>)

onDisconnect_Silent(m, id) == Sweep_Silent(m, 1, id, <<>>)

onDisconnect_Broadcast(m, id) == Sweep_Broadcast(m, 1, id, <<>>)

onDisconnect_SkipsAfterDelete(m, id) == Sweep_SkipsAfterDelete(m, 1, id, <<>>)

\* socket.on("disconnect")
onDisconnect(m, id) == Sweep(m, 1, id, <<>>)

-----------------------------------------------------------------------------
(* Observers.  `mon` takes no part in what the handlers do: it remembers,   *)
(* of the events handled so far, what a property about more than the last   *)
(* event needs.  Its mode is fixed by the initial state: "off" remembers     *)
(* nothing, "evicted" remembers who was just displaced from which session,   *)
(* "scenario" follows the end-to-end sequence create, join, offer,           *)
(* disconnect, join as long as its events are handled one after the other.   *)

Monitor(mode, evicted, stage, x, y, z, t, s) ==
    [mode |-> mode, evicted |-> evicted, stage |-> stage,
     x |-> x, y |-> y, z |-> z, t |-> t, s |-> s]

MonitorOff(mode) == Monitor(mode, {}, 0, None, None, None, None, None)

\* The eviction just handled, as {<<g, t>>}: g was guest of the session
\* under t and the join handled last gave its place to another connection.
\* The pair outlives the disconnect of g that follows at once (and sockets
\* connecting in between); any other event drops it.
ObserveEvicted(m, ev) ==
    IF ev.ev = "connection" THEN mon.evicted
    ELSE IF /\ ev.ev = "join-session" /\ MapHas(m, ev.token)
            /\ Truthy(MapGet(m, ev.token).guest)
            /\ MapGet(m, ev.token).guest # ev.conn
    THEN {<<MapGet(m, ev.token).guest, ev.token>>}
    ELSE IF ev.ev = "disconnect"
    THEN {p \in mon.evicted : p[1] = ev.conn}
    ELSE {}

\* The stage of the end-to-end sequence the event just handled completes:
\* 1 X creates a session (token t); 2 Y joins t; 3 X sends offer {target Y,
\* sdp S}; 4 Y disconnects; 5 a third connection Z joins t.  A socket
\* connecting in between does not interrupt it, any other event does.
ObserveScenario(ev) ==
    IF ev.ev = "connection" THEN mon
    ELSE IF ev.ev = "create-session"
    THEN Monitor(mon.mode, {}, 1, ev.conn, None, None, ev.token, None)
    ELSE IF /\ mon.stage = 1 /\ ev.ev = "join-session"
            /\ ev.token = mon.t /\ ev.conn # mon.x
    THEN [mon EXCEPT !.stage = 2, !.y = ev.conn]
    ELSE IF /\ mon.stage = 2 /\ ev.ev = "offer" /\ ev.conn = mon.x
            /\ ev.hasPayload /\ ev.target = mon.y
    THEN [mon EXCEPT !.stage = 3, !.s = ev.data]
    ELSE IF mon.stage = 3 /\ ev.ev = "disconnect" /\ ev.conn = mon.y
    THEN [mon EXCEPT !.stage = 4]
    ELSE IF /\ mon.stage = 4 /\ ev.ev = "join-session"
            /\ ev.token = mon.t /\ ev.conn \notin {mon.x, mon.y}
    THEN [mon EXCEPT !.stage = 5, !.z = ev.conn]
    ELSE MonitorOff(mon.mode)

\* The observer after event ev, handled on store m with result r.
Observe(ev, m, r) ==
    IF mon.mode = "evicted"
    THEN [mon EXCEPT !.evicted = ObserveEvicted(m, ev)]
    ELSE IF mon.mode = "scenario" THEN ObserveScenario(ev)
    ELSE mon

-----------------------------------------------------------------------------
(* The page (src/main.js): what its socket and button handlers and its      *)
(* timers do to the page's state.  A timer is its remaining time in ms.     *)

\* The socket id of the page, and the peers it hears from.
Me == SocketId(1)

Peers == Conns \ {Me}

\* The smallest lapse of time the model tells apart.
Quantum == RedirectDelay \div Slices

\* connectionTimeout and the timer it names: "none" is null, "armed" a timer
\* not yet due, "fired" and "cleared" a handle that names no pending timer.
Timer(state, left) == [state |-> state, left |-> left]

\* clearTimeout(connectionTimeout) under `if (connectionTimeout)`.
clearTimeout(w) == IF w.state = "armed" THEN Timer("cleared", 0) ELSE w

ClientMsg(event, target) == [event |-> event, target |-> target]

\* An async handler past its first await: it will emit `kind` to `target`.
Task(kind, target) == [kind |-> kind, target |-> target]

ClientStart ==
    [location |-> "/",
     screen |-> "selection",        \* the screen displayed
     requested |-> 0,               \* create-session sent, not yet answered
     token |-> Null,                \* myTokenDisplay
     wait |-> Timer("none", 0),     \* connectionTimeout
     redirect |-> <<>>,             \* the timers of the redirect, pending
     currentTargetId |-> Null,
     isConnected |-> FALSE,
     pendingOffer |-> Null,
     tasks |-> {},
     joined |-> FALSE,              \* peer-joined came for the session created
     ev |-> None,                   \* the handler that ran last
     out |-> <<>>]                  \* what it emitted

\* The handler ev ran and emitted out.
Did(cl, ev, out) == [cl EXCEPT !.ev = ev, !.out = out]

resetUI(cl) == [cl EXCEPT !.screen = "selection"]

endCall(cl) == [cl EXCEPT !.isConnected = FALSE, !.currentTargetId = Null]

startCallState(cl) == [cl EXCEPT !.isConnected = TRUE]

\* createBtn click
onCreateClick(cl) ==
    Did([cl EXCEPT !.requested = @ + 1], "create-click",
        <<ClientMsg("create-session", None)>>)

\* socket.on("session-created"): the waiting screen, and the timeout
\* started afresh.
onSessionCreated(cl, token) ==
    Did([cl EXCEPT !.requested = @ - 1,
                   !.screen = "waiting",
                   !.token = token,
                   !.joined = FALSE,
                   !.wait = Timer("armed", TIMEOUT_DURATION)],
        "session-created", <<>>)

\* The callback of connectionTimeout: it starts the timer of the redirect,
\* whose handle is kept nowhere.
onTimeout(cl) ==
    Did([cl EXCEPT !.wait = Timer("fired", 0),
                   !.redirect = Append(@, RedirectDelay)],
        "timeout", <<>>)

\* The callback of the inner timer: window.location.href = '/scan.html'.
onRedirect(cl, i) ==
    Did([cl EXCEPT !.location = "/scan.html",
                   !.redirect = SubSeq(@, 1, i - 1) \o SubSeq(@, i + 1, Len(@))],
        "redirect", <<>>)

\* socket.on("peer-joined"): clears connectionTimeout and starts the call.
onPeerJoined(cl, peerId) ==
    Did([cl EXCEPT !.wait = clearTimeout(@),
                   !.screen = "main",
                   !.currentTargetId = peerId,
                   !.tasks = @ \cup {Task("offer", peerId)},
                   !.joined = TRUE],
        "peer-joined", <<>>)

\* socket.on("offer"), up to its first await.
onOfferReceived(cl, caller) ==
    Did([cl EXCEPT !.currentTargetId = caller,
                   !.tasks = @ \cup {Task("answer", caller)}],
        "offer", <<>>)

\* The rest of startCall and of the offer handler: the call state, and the
\* offer or the answer emitted to the target.
onTaskDone(cl, t) ==
    Did(startCallState([cl EXCEPT !.tasks = @ \ {t}]),
        "emit-" \o t.kind, <<ClientMsg(t.kind, t.target)>>)

\* The same, failing on the way (no media, no peer connection).
onTaskFailed(cl, t) == Did([cl EXCEPT !.tasks = @ \ {t}], "failed", <<>>)

\* pendingOffer?.caller
Caller(pending) == IF pending = Null THEN Undefined ELSE pending.caller

\* declineBtn click: pendingOffer = null, then the hangup is emitted with
\* target pendingOffer?.caller.
onDecline(cl) ==
    LET cleared == [cl EXCEPT !.pendingOffer = Null]
    IN  Did(cleared, "decline",
            <<ClientMsg("hangup", Caller(cleared.pendingOffer))>>)

\* socket.on("hangup")
onHangupReceived(cl) == Did(resetUI(endCall(cl)), "hangup", <<>>)

\* socket.on("error")
onError(cl) == Did(resetUI(cl), "error", <<>>)

\* disconnectBtn click
onDisconnectClick(cl) ==
    Did(resetUI(endCall(cl)), "disconnect-click",
        <<ClientMsg("hangup", cl.currentTargetId)>>)

\* A timer is pending and none is due.
CanElapse(cl) ==
    /\ cl.wait.state = "armed" \/ cl.redirect # <<>>
    /\ cl.wait.state = "armed" => cl.wait.left > 0
    /\ \A i \in 1..Len(cl.redirect) : cl.redirect[i] > 0

Less(left) == IF left > Quantum THEN left - Quantum ELSE 0

\* Quantum ms pass.
Elapsed(cl) ==
    Did([cl EXCEPT !.wait = IF @.state = "armed" THEN Timer("armed", Less(@.left))
                             ELSE @,
                   !.redirect = [i \in 1..Len(@) |-> Less(@[i])]],
        "elapse", <<>>)

-----------------------------------------------------------------------------
(* The state machine: one action per socket.io event *)

NoEvent == Event(None, None, None, FALSE, None, None)

Started(mode) ==
    /\ conns = [c \in Conns |-> "new"]
    /\ sessions = <<>>
    /\ emitted = <<>>
    /\ last = NoEvent
    /\ prev = <<>>
    /\ raised = FALSE
    /\ mon = MonitorOff(mode)
    /\ client = ClientStart

Init == Started("off")

InitEvicted == Started("evicted")

InitScenario == Started("scenario")

\* An event of socket c is handled: the socket is connected and the process
\* has not died of an uncaught exception.
Handles(c) == ~raised /\ conns[c] = "live"

\* The handler's result becomes the state.
Apply(ev, r) ==
    /\ sessions' = r.reg
    /\ emitted' = r.out
    /\ raised' = r.threw
    /\ prev' = sessions
    /\ last' = ev
    /\ mon' = Observe(ev, sessions, r)
    /\ UNCHANGED client

\* io.on("connection"): the socket gets its handlers.
Connection(c) ==
    /\ ~raised
    /\ conns[c] = "new"
    /\ conns' = [conns EXCEPT ![c] = "live"]
    /\ Apply(Event("connection", c, None, FALSE, None, None), Result(sessions, <<>>))

CreateSession(c) ==
    /\ Handles(c)
    /\ \E k \in Draws :
          Apply(Event("create-session", c, generateToken(k), FALSE, None, None),
                onCreateSession(sessions, c, k))
    /\ UNCHANGED conns

JoinSession(c) ==
    /\ Handles(c)
    /\ \E token \in JoinArgs :
          Apply(Event("join-session", c, token, FALSE, None, None),
                onJoinSession(sessions, c, token))
    /\ UNCHANGED conns

Offer(c) ==
    /\ Handles(c)
    /\ \E p \in Payloads :
          Apply(Event("offer", c, None, p.present, p.target, p.data),
                onOffer(sessions, c, p))
    /\ UNCHANGED conns

Answer(c) ==
    /\ Handles(c)
    /\ \E p \in Payloads :
          Apply(Event("answer", c, None, p.present, p.target, p.data),
                onAnswer(sessions, c, p))
    /\ UNCHANGED conns

IceCandidate(c) ==
    /\ Handles(c)
    /\ \E p \in Payloads :
          Apply(Event("ice-candidate", c, None, p.present, p.target, p.data),
                onIceCandidate(sessions, c, p))
    /\ UNCHANGED conns

Hangup(c) ==
    /\ Handles(c)
    /\ \E p \in TargetPayloads :
          Apply(Event("hangup", c, None, p.present, p.target, p.data),
                onHangup(sessions, c, p))
    /\ UNCHANGED conns

OpenDoor(c) ==
    /\ Handles(c)
    /\ \E p \in TargetPayloads :
          Apply(Event("open-door", c, None, p.present, p.target, p.data),
                onOpenDoor(sessions, c, p))
    /\ UNCHANGED conns

\* The socket closes: its disconnect handler runs once, and no event of it
\* is handled afterwards.
Disconnect(c) ==
    /\ Handles(c)
    /\ conns' = [conns EXCEPT ![c] = "gone"]
    /\ Apply(Event("disconnect", c, None, FALSE, None, None),
             onDisconnect(sessions, c))

Next ==
    \E c \in Conns :
        \/ Connection(c)
        \/ CreateSession(c)
        \/ JoinSession(c)
        \/ Offer(c)
        \/ Answer(c)
        \/ IceCandidate(c)
        \/ Hangup(c)
        \/ OpenDoor(c)
        \/ Disconnect(c)

Spec == Init /\ [][Next]_vars

\* The same machine, observed.
SpecEvicted == InitEvicted /\ [][Next]_vars

SpecScenario == InitScenario /\ [][Next]_vars

-----------------------------------------------------------------------------
(* The page as a state machine: one action per handler, timer callback and  *)
(* lapse of time.  The server is left out of it: what reaches the page is   *)
(* any message the server can send it.                                      *)

InitClient == Started("client")

\* The page is loaded: once it has gone to /scan.html nothing of it runs.
Loaded == client.location = "/"

Server == <<conns, sessions, emitted, last, prev, raised, mon>>

Page(cl) == client' = cl /\ UNCHANGED Server

ClickCreate ==
    /\ Loaded
    /\ client.screen = "selection"
    /\ client.requested < MaxRequests
    /\ Page(onCreateClick(client))

\* session-created answers a create-session of the page.
SessionCreated ==
    /\ Loaded
    /\ client.requested > 0
    /\ \E token \in Tokens : Page(onSessionCreated(client, token))

WaitTimeout ==
    /\ Loaded
    /\ client.wait = Timer("armed", 0)
    /\ Page(onTimeout(client))

Redirect ==
    /\ Loaded
    /\ \E i \in 1..Len(client.redirect) :
          client.redirect[i] = 0 /\ Page(onRedirect(client, i))

\* peer-joined goes to the host of a session: the page has created one.
PeerJoinedReceived ==
    /\ Loaded
    /\ client.token # Null
    /\ Cardinality(client.tasks) < MaxTasks
    /\ \E peerId \in Peers : Page(onPeerJoined(client, peerId))

\* The server relays an offer from anyone to anyone.
OfferReceived ==
    /\ Loaded
    /\ Cardinality(client.tasks) < MaxTasks
    /\ \E caller \in Peers : Page(onOfferReceived(client, caller))

TaskDone ==
    /\ Loaded
    /\ \E t \in client.tasks : Page(onTaskDone(client, t))

TaskFailed ==
    /\ Loaded
    /\ \E t \in client.tasks : Page(onTaskFailed(client, t))

ClickDecline == Loaded /\ Page(onDecline(client))

HangupReceived == Loaded /\ Page(onHangupReceived(client))

ErrorReceived == Loaded /\ Page(onError(client))

\* The disconnect button is displayed by startCallState, hidden by endCall.
ClickDisconnect ==
    /\ Loaded
    /\ client.isConnected
    /\ Page(onDisconnectClick(client))

Elapse == Loaded /\ CanElapse(client) /\ Page(Elapsed(client))

NextClient ==
    \/ ClickCreate
    \/ SessionCreated
    \/ WaitTimeout
    \/ Redirect
    \/ PeerJoinedReceived
    \/ OfferReceived
    \/ TaskDone
    \/ TaskFailed
    \/ ClickDecline
    \/ HangupReceived
    \/ ErrorReceived
    \/ ClickDisconnect
    \/ Elapse

SpecClient == InitClient /\ [][NextClient]_vars

-----------------------------------------------------------------------------
(* Properties.  Each is about the handler that ran last: `last` is its      *)
(* event, `prev` the store it found, `sessions` the store it left and       *)
(* `emitted` what it sent.                                                  *)

Joined(c, host) == Msg(c, "session-joined", "guest", "peerId", host, None, None)

PeerJoined(host, c) == Msg(host, "peer-joined", "host", "peerId", c, None, None)

\* Every entry of the store but the one under token t is as the handler
\* found it, and no entry came or went.
OthersUntouched(t) ==
    /\ Len(sessions) = Len(prev)
    /\ \A i \in 1..Len(prev) :
          /\ sessions[i].token = prev[i].token
          /\ prev[i].token # t => sessions[i] = prev[i]

\* The store m holds, under token t, the session {host: h, guest: g}.
Stored(m, t, h, g) ==
    MapHas(m, t) /\ MapGet(m, t) = [token |-> t, host |-> h, guest |-> g]

JoinedExisting == last.ev = "join-session" /\ MapHas(prev, last.token)

JoinedWaiting == JoinedExisting /\ ~Truthy(MapGet(prev, last.token).guest)

JoinedPaired == JoinedExisting /\ Truthy(MapGet(prev, last.token).guest)

\* C1: a join of a session that exists and has no guest makes the joiner
\* the guest and emits exactly two messages, session-joined {role guest,
\* peerId host} to the joiner and peer-joined {role host, peerId joiner} to
\* the host; nobody else is sent anything and no other session changes.
C1_JoinWaiting ==
    JoinedWaiting =>
        LET t == last.token
            c == last.conn
            h == MapGet(prev, t).host
        IN  /\ Stored(sessions, t, h, c)
            /\ emitted = <<Joined(c, h), PeerJoined(h, c)>>
            /\ \A i \in 1..Len(emitted) : emitted[i].to \in {c, h}
            /\ OthersUntouched(t)

\* A waiting session was joined by a connection other than its host while
\* another session was in the store.
C1_Witness ==
    /\ JoinedWaiting
    /\ Len(prev) = 2
    /\ MapGet(prev, last.token).host # last.conn
    /\ Len(emitted) = 2

\* C2: a join of a session that has guest g sends g the eviction error,
\* then session-joined {peerId host} to the joiner and peer-joined
\* {peerId joiner} to the host, and leaves the joiner as the guest; so
\* whatever the order of the joins of one token, the guest after each is the
\* connection whose join was handled last.
C2_JoinEvicts ==
    /\ JoinedPaired =>
          LET t == last.token
              c == last.conn
              h == MapGet(prev, t).host
              g == MapGet(prev, t).guest
          IN  /\ emitted = <<Text(g, "error", Evicted), Joined(c, h), PeerJoined(h, c)>>
              /\ Stored(sessions, t, h, c)
    /\ JoinedExisting =>
          MapHas(sessions, last.token) /\ MapGet(sessions, last.token).guest = last.conn

\* A third connection took the guest slot from the guest in place.
C2_Witness ==
    /\ JoinedPaired
    /\ MapGet(prev, last.token).guest # last.conn
    /\ MapGet(prev, last.token).host # last.conn
    /\ Stored(sessions, last.token, MapGet(prev, last.token).host, last.conn)
    /\ emitted[1].event = "error"

JoinedMissing == last.ev = "join-session" /\ ~MapHas(prev, last.token)

\* C3: a join of a token that has no session sends "Invalid Token" to the
\* joiner alone and leaves the store as it was: no session appears under the
\* token, none changes, and the same join again gives the same result.
C3_JoinInvalid ==
    JoinedMissing =>
        /\ emitted = <<Text(last.conn, "error", InvalidToken)>>
        /\ sessions = prev
        /\ ~MapHas(sessions, last.token)
        /\ onJoinSession(sessions, last.conn, last.token) = Result(sessions, emitted)

\* A generated token that names no session was joined while another
\* session was in the store.
C3_Witness ==
    /\ JoinedMissing
    /\ last.token \in Tokens
    /\ Len(sessions) = 1
    /\ emitted # <<>>

Disconnected == last.ev = "disconnect"

\* The sessions the disconnecting socket was host of, as positions of prev.
HostedBefore == {i \in 1..Len(prev) : prev[i].host = last.conn}

\* The sessions it was guest of.
GuestBefore == {i \in 1..Len(prev) : prev[i].guest = last.conn}

Sent(m) == \E j \in 1..Len(emitted) : emitted[j] = m

\* C4: when the host of a session disconnects the session leaves the store
\* (a lookup finds nothing and any join of its token is answered "Invalid
\* Token"), and a guest present at that moment is sent peer-disconnected.
C4_HostDisconnect ==
    Disconnected =>
        \A i \in HostedBefore :
            LET t == prev[i].token
                g == prev[i].guest
            IN  /\ ~MapHas(sessions, t)
                /\ \A c \in Conns :
                      onJoinSession(sessions, c, t)
                          = Result(sessions, <<Text(c, "error", InvalidToken)>>)
                /\ Truthy(g) => Sent(Bare(g, "peer-disconnected"))

\* The host of a paired session left.
C4_Witness ==
    /\ Disconnected
    /\ \E i \in HostedBefore :
          /\ Truthy(prev[i].guest)
          /\ prev[i].guest # last.conn
          /\ Sent(Bare(prev[i].guest, "peer-disconnected"))

\* C5 as claimed: when the guest of a session disconnects the guest slot is
\* cleared, the session stays under its token with the same host, the host
\* is sent peer-disconnected, and a join of the token by another connection
\* is then the join of a waiting session.
C5_GuestDisconnect ==
    Disconnected =>
        \A i \in GuestBefore :
            LET t == prev[i].token
                h == prev[i].host
            IN  /\ Stored(sessions, t, h, Null)
                /\ Sent(Bare(h, "peer-disconnected"))
                /\ \A c \in Conns :
                      LET r == onJoinSession(sessions, c, t)
                      IN  /\ Stored(r.reg, t, h, c)
                          /\ r.out = <<Joined(c, h), PeerJoined(h, c)>>

\* C6 as claimed: a connection that is host of token A and guest of another
\* token B disconnects: A leaves the store, B stays with its host and an
\* empty guest slot; and every session the connection was host or guest of
\* is dealt with in the one sweep.
C6_HostAndGuest ==
    Disconnected =>
        /\ \A a \in HostedBefore : \A b \in GuestBefore :
              a # b =>
                  /\ ~MapHas(sessions, prev[a].token)
                  /\ Stored(sessions, prev[b].token, prev[b].host, Null)
        /\ \A i \in 1..Len(sessions) :
              sessions[i].host # last.conn /\ sessions[i].guest # last.conn

\* What the guest branch of the sweep does hold of: the two statements above
\* for a guest that is not the host of the same session.
GuestBranch ==
    Disconnected =>
        \A b \in GuestBefore \ HostedBefore :
            /\ Stored(sessions, prev[b].token, prev[b].host, Null)
            /\ Sent(Bare(prev[b].host, "peer-disconnected"))
            /\ \A a \in HostedBefore : ~MapHas(sessions, prev[a].token)

CreatedSession == last.ev = "create-session"

\* C7: right after create-session the store holds, under the token that was
\* generated, a session whose host is the creator and whose guest is absent,
\* and the creator alone is sent session-created with that token.
C7_Create ==
    CreatedSession =>
        /\ Stored(sessions, last.token, last.conn, Null)
        /\ emitted = <<Msg(last.conn, "session-created", None, None, None,
                           "token", last.token)>>

\* A second session was created beside one that is paired.
C7_Witness ==
    /\ CreatedSession
    /\ Len(prev) = 1
    /\ Len(sessions) = 2
    /\ Truthy(prev[1].guest)
    /\ emitted[1].event = "session-created"

\* C8 as claimed: create-session never overwrites a live session: when the
\* generated token is in use, the session stored under it keeps its host and
\* its guest.
C8_NoOverwrite ==
    (CreatedSession /\ MapHas(prev, last.token)) =>
        Stored(sessions, last.token, MapGet(prev, last.token).host,
               MapGet(prev, last.token).guest)

\* C9 as claimed: no event makes a handler raise.
C9_NoRaise == ~raised

RelayEvents == {"offer", "answer", "ice-candidate", "hangup", "open-door"}

\* C10: every stored session has a host, and no join-session, relay or
\* disconnect changes the host of a session that stays in the store.
C10_HostFixed ==
    /\ \A i \in 1..Len(sessions) : sessions[i].host \in Conns
    /\ last.ev \in RelayEvents \cup {"join-session", "disconnect"} =>
          \A i \in 1..Len(prev) :
              MapHas(sessions, prev[i].token) =>
                  MapGet(sessions, prev[i].token).host = prev[i].host

\* The guest slot of a session was reassigned by a join.
C10_Witness ==
    /\ JoinedPaired
    /\ MapHas(sessions, last.token)
    /\ MapGet(prev, last.token).guest # MapGet(sessions, last.token).guest
    /\ MapGet(prev, last.token).host = MapGet(sessions, last.token).host
    /\ MapGet(sessions, last.token).host # last.conn

-----------------------------------------------------------------------------
(* The relays *)

Forwarded == {"offer", "answer", "ice-candidate"}

Notified == {"hangup", "open-door"}

\* The field a relayed message names its sender under.
SenderKey(ev) ==
    IF ev = "offer" THEN "caller" ELSE IF ev = "answer" THEN "responder" ELSE "sender"

\* The field it carries the blob under.
BlobKey(ev) == IF ev = "ice-candidate" THEN "candidate" ELSE "sdp"

\* C11: an offer, answer or ice-candidate from sender s with target C emits
\* one message, to C and to nobody else, of the same kind, carrying the
\* sdp / candidate as it came and s under caller / responder / sender.
C11_RelayFidelity ==
    (last.ev \in Forwarded /\ last.hasPayload /\ last.target \in Conns) =>
        /\ emitted = <<Msg(last.target, last.ev, None, SenderKey(last.ev),
                           last.conn, BlobKey(last.ev), last.data)>>
        /\ \A j \in 1..Len(emitted) : emitted[j].to = last.target

\* An answer with an sdp went to another connection under responder.
C11_Witness ==
    /\ last.ev = "answer"
    /\ last.target \in Conns \ {last.conn}
    /\ last.data = "blobB"
    /\ Len(emitted) = 1
    /\ emitted[1].peerKey = "responder"
    /\ emitted[1].data = "blobB"

\* C12: a hangup or open-door whose target is missing or falsy emits
\* nothing, and with a target emits {sender} of the same kind to that target
\* alone; an offer, answer or ice-candidate is emitted to the target that
\* came, whatever it is.
C12_TargetCheck ==
    /\ (last.ev \in Notified /\ last.hasPayload /\ ~Truthy(last.target)) =>
          emitted = <<>>
    /\ (last.ev \in Notified /\ last.hasPayload /\ Truthy(last.target)) =>
          emitted = <<Msg(last.target, last.ev, None, "sender", last.conn,
                          None, None)>>
    /\ (last.ev \in Forwarded /\ last.hasPayload) =>
          Len(emitted) = 1 /\ emitted[1].to = last.target

\* A hangup whose payload has target null was dropped.
C12_Witness ==
    /\ last.ev = "hangup"
    /\ last.hasPayload
    /\ last.target = Null
    /\ emitted = <<>>
    /\ ~raised

\* An offer with no target field was emitted all the same.
C12_WitnessForwarded ==
    /\ last.ev = "offer"
    /\ last.hasPayload
    /\ last.target = Undefined
    /\ Len(emitted) = 1

-----------------------------------------------------------------------------
(* The life of a session *)

\* C13: a token leaves the store only when a disconnect of its host is
\* handled: after any other event (a guest's disconnect, a join, a relay, a
\* hangup by host or guest) every token that was in the store still is.
C13_TokenStays ==
    \A i \in 1..Len(prev) :
        LET hostLeft == last.ev = "disconnect" /\ prev[i].host = last.conn
        IN  /\ ~MapHas(sessions, prev[i].token) => hostLeft
            /\ (last.ev \in RelayEvents \cup {"join-session", "disconnect"}
                    /\ ~hostLeft) =>
                  /\ MapHas(sessions, prev[i].token)
                  /\ MapGet(sessions, prev[i].token).host = prev[i].host

\* A guest that is not the host left and the session is still there, waiting.
C13_Witness ==
    /\ Disconnected
    /\ \E i \in GuestBefore \ HostedBefore :
          Stored(sessions, prev[i].token, prev[i].host, Null)

\* C14 as claimed: when the host of a paired session disconnects, the guest
\* is sent peer-disconnected and a hangup, and the session is removed.
C14_HangupSent ==
    Disconnected =>
        \A i \in HostedBefore :
            Truthy(prev[i].guest) =>
                /\ Sent(Bare(prev[i].guest, "peer-disconnected"))
                /\ \E j \in 1..Len(emitted) :
                      emitted[j].to = prev[i].guest /\ emitted[j].event = "hangup"
                /\ ~MapHas(sessions, prev[i].token)

\* C14: when the host of a paired session disconnects, the guest is sent
\* the error "Host disconnected" and right after it peer-disconnected, the
\* session is removed, and the disconnect emits no hangup.
C14_HostLeftSent ==
    Disconnected =>
        /\ \A i \in HostedBefore :
              Truthy(prev[i].guest) =>
                  /\ \E j \in 1..(Len(emitted) - 1) :
                        /\ emitted[j] = Text(prev[i].guest, "error", HostLeft)
                        /\ emitted[j + 1] = Bare(prev[i].guest, "peer-disconnected")
                  /\ ~MapHas(sessions, prev[i].token)
        /\ \A j \in 1..Len(emitted) : emitted[j].event # "hangup"

\* The host of a session paired with another connection left.
C14_Witness ==
    /\ Disconnected
    /\ \E i \in HostedBefore :
          /\ prev[i].guest \in Conns \ {last.conn}
          /\ ~MapHas(sessions, prev[i].token)
          /\ emitted = <<Text(prev[i].guest, "error", HostLeft),
                         Bare(prev[i].guest, "peer-disconnected")>>

-----------------------------------------------------------------------------
(* The end-to-end sequence, followed by the observer of SpecScenario *)

\* The event of stage n is the one handled last.
AtStage(n, ev) == mon.stage = n /\ last.ev = ev

\* C15: create by X (token t), join t by Y, offer {target Y, sdp S} from X,
\* disconnect of Y, join t by a third connection Z, handled one after the
\* other: no step raises, each finds the sockets and the session it needs,
\* and the steps emit, in this order, session-created t to X; session-joined
\* {peerId X} to Y and peer-joined {peerId Y} to X; offer {sdp S, caller X}
\* to Y; peer-disconnected to X; session-joined {peerId X} to Z and
\* peer-joined {peerId Z} to X.
C15_Scenario ==
    /\ mon.stage >= 1 => ~raised /\ conns[mon.x] = "live"
    /\ mon.stage \in {2, 3} =>
          conns[mon.y] = "live" /\ Stored(sessions, mon.t, mon.x, mon.y)
    /\ mon.stage = 4 => Stored(sessions, mon.t, mon.x, Null)
    /\ AtStage(1, "create-session") =>
          emitted = <<Msg(mon.x, "session-created", None, None, None,
                          "token", mon.t)>>
    /\ AtStage(2, "join-session") =>
          emitted = <<Joined(mon.y, mon.x), PeerJoined(mon.x, mon.y)>>
    /\ AtStage(3, "offer") =>
          emitted = <<Msg(mon.y, "offer", None, "caller", mon.x, "sdp", mon.s)>>
    /\ AtStage(4, "disconnect") => Sent(Bare(mon.x, "peer-disconnected"))
    /\ AtStage(5, "join-session") =>
          /\ emitted = <<Joined(mon.z, mon.x), PeerJoined(mon.x, mon.z)>>
          /\ Stored(sessions, mon.t, mon.x, mon.z)

\* The whole sequence was handled, by three connections.
C15_Witness ==
    /\ AtStage(5, "join-session")
    /\ Cardinality({mon.x, mon.y, mon.z}) = 3
    /\ mon.s \in Blobs
    /\ Len(emitted) = 2
    /\ emitted[2] = PeerJoined(mon.x, mon.z)

-----------------------------------------------------------------------------
(* Who can be in a session, and what the relays have to do with it *)

\* C16 as claimed: the guest of a session, when there is one, is never the
\* connection that is the session's host.
C16_DistinctPeers ==
    \A i \in 1..Len(sessions) :
        Truthy(sessions[i].guest) => sessions[i].guest # sessions[i].host

\* C17: offer, answer, ice-candidate, hangup and open-door leave the store
\* as they found it; a hangup by the host or the guest of a session neither
\* removes the session nor clears its guest slot.
C17_RelayKeepsStore == last.ev \in RelayEvents => sessions = prev

\* The host of a paired session sent its guest a hangup.
C17_Witness ==
    /\ last.ev = "hangup"
    /\ Len(emitted) = 1
    /\ \E i \in 1..Len(sessions) :
          /\ sessions[i].host = last.conn
          /\ sessions[i].guest = last.target
          /\ last.target \in Conns \ {last.conn}

\* The payload of the relay event handled last, as the handler got it.
LastPayload ==
    [present |-> last.hasPayload, target |-> last.target, data |-> last.data]

\* What the handler of the relay event handled last does on the store m.
RelayOn(m) ==
    IF last.ev = "offer" THEN onOffer(m, last.conn, LastPayload)
    ELSE IF last.ev = "answer" THEN onAnswer(m, last.conn, LastPayload)
    ELSE IF last.ev = "ice-candidate" THEN onIceCandidate(m, last.conn, LastPayload)
    ELSE IF last.ev = "hangup" THEN onHangup(m, last.conn, LastPayload)
    ELSE onOpenDoor(m, last.conn, LastPayload)

\* A store in which sender and target are host and guest of one session.
PairedStore(h, g) == <<[token |-> generateToken(0), host |-> h, guest |-> g]>>

\* The connection is host or guest of some session of the store m.
InSession(m, c) == \E i \in 1..Len(m) : c \in {m[i].host, m[i].guest}

\* C18: what a relay event emits does not depend on the store: it is what
\* the same event emits on an empty store, and on a store where the sender
\* and the target are host and guest of one session, either way round.
C18_RelayIgnoresStore ==
    last.ev \in RelayEvents =>
        /\ emitted = RelayOn(<<>>).out
        /\ emitted = RelayOn(PairedStore(last.conn, last.target)).out
        /\ emitted = RelayOn(PairedStore(last.target, last.conn)).out
        /\ raised = RelayOn(<<>>).threw

\* An offer from a connection that is in no session was forwarded to one
\* that hosts a session.
C18_Witness ==
    /\ last.ev = "offer"
    /\ last.target \in Conns \ {last.conn}
    /\ ~InSession(sessions, last.conn)
    /\ \E i \in 1..Len(sessions) : sessions[i].host = last.target
    /\ Len(emitted) = 1
    /\ emitted[1].to = last.target

-----------------------------------------------------------------------------
(* What an event leaves alone *)

\* Entry i of the store the handler found is in the store it left, as it was.
Unchanged(i) ==
    MapHas(sessions, prev[i].token) /\ MapGet(sessions, prev[i].token) = prev[i]

\* The sessions the connection handled last was neither host nor guest of.
Unrelated ==
    {i \in 1..Len(prev) : last.conn \notin {prev[i].host, prev[i].guest}}

\* create-session and join-session change no session but the one under
\* their token, and a disconnect changes no session its connection is
\* neither host nor guest of.
FrameOfStore ==
    /\ last.ev \in {"create-session", "join-session"} =>
          /\ \A i \in 1..Len(prev) : prev[i].token # last.token => Unchanged(i)
          /\ \A k \in 1..Len(sessions) :
                MapHas(prev, sessions[k].token) \/ sessions[k].token = last.token
    /\ Disconnected => \A i \in Unrelated : Unchanged(i)

\* C19 as claimed: with the above, a disconnect sends no message to the host
\* or the guest of a session its connection is neither host nor guest of.
C19_NoMessageToOthers ==
    /\ FrameOfStore
    /\ Disconnected =>
          \A i \in Unrelated : \A j \in 1..Len(emitted) :
              emitted[j].to \notin {prev[i].host, prev[i].guest}

\* Whom the disconnect handled last has to tell: the guests of the sessions
\* its connection was host of, the hosts of those it was guest of.
Counterparts ==
    {prev[i].guest : i \in HostedBefore} \cup {prev[i].host : i \in GuestBefore}

\* C19: create-session and join-session change no session but the one under
\* their token; a disconnect of c changes no session c is neither host nor
\* guest of, and every message it sends goes to the counterpart of c in a
\* session c was host or guest of; a create-session is answered to its
\* socket alone and a join to the joiner, the host and the former guest of
\* its token.
C19_Frame ==
    /\ FrameOfStore
    /\ Disconnected =>
          \A j \in 1..Len(emitted) : emitted[j].to \in Counterparts
    /\ CreatedSession =>
          \A j \in 1..Len(emitted) : emitted[j].to = last.conn
    /\ JoinedExisting =>
          \A j \in 1..Len(emitted) :
              emitted[j].to \in {last.conn, MapGet(prev, last.token).host,
                                 MapGet(prev, last.token).guest}

\* A connection left one session while a paired session of two others stayed.
C19_Witness ==
    /\ Disconnected
    /\ emitted # <<>>
    /\ \E i \in Unrelated : Truthy(prev[i].guest) /\ Unchanged(i)

\* A connection left a session whose counterpart is sent a message and is
\* also the host of a session the leaving connection had no part in.
C19_WitnessShared ==
    /\ Disconnected
    /\ \E i \in Unrelated : \E j \in 1..Len(emitted) :
          emitted[j].to = prev[i].host /\ Unchanged(i)

-----------------------------------------------------------------------------
(* The evicted guest, followed by the observer of SpecEvicted *)

\* The evicted guest g of token t is the connection whose disconnect was
\* handled last.
EvictedLeft(p) == Disconnected /\ p \in mon.evicted /\ p[1] = last.conn

\* The peer-disconnected messages to h that the sessions other than the one
\* under t account for: one for each that g was guest of and h host of, one
\* for each that g was host of and h guest of.
DueFromOthers(g, t, h) ==
    Cardinality({i \in 1..Len(prev) :
                    /\ prev[i].token # t
                    /\ \/ prev[i].host = g /\ prev[i].guest = h
                       \/ prev[i].host # g /\ prev[i].guest = g /\ prev[i].host = h})

PeerDisconnectedTo(h) ==
    Cardinality({j \in 1..Len(emitted) : emitted[j] = Bare(h, "peer-disconnected")})

\* The session under t is as the disconnect found it and its host was sent
\* no peer-disconnected on its account.
LeftAlone(g, t) ==
    /\ MapHas(prev, t)
    /\ MapHas(sessions, t)
    /\ MapGet(sessions, t) = MapGet(prev, t)
    /\ PeerDisconnectedTo(MapGet(prev, t).host)
          = DueFromOthers(g, t, MapGet(prev, t).host)

\* C20 as claimed: after a join evicted guest g from the session under t,
\* the disconnect of g leaves that session unchanged, the new guest in its
\* slot, and sends its host no peer-disconnected on its account.
C20_EvictedDisconnect ==
    \A p \in mon.evicted : EvictedLeft(p) => LeftAlone(p[1], p[2])

\* What does hold: the same for an evicted guest that is not the host of
\* the session it was evicted from.
EvictedGuestBranch ==
    \A p \in mon.evicted :
        (EvictedLeft(p) /\ MapHas(prev, p[2]) /\ MapGet(prev, p[2]).host # p[1])
            => LeftAlone(p[1], p[2])

\* An evicted guest that is not the host left, and the session is paired
\* with the connection that took its place.
EvictedGuestLeft ==
    \E p \in mon.evicted :
        /\ EvictedLeft(p)
        /\ MapHas(sessions, p[2])
        /\ MapGet(sessions, p[2]).host # p[1]
        /\ Truthy(MapGet(sessions, p[2]).guest)

-----------------------------------------------------------------------------
(* The store and the connections *)

\* The connection is one whose handlers are registered and whose disconnect
\* has not been handled.
Live(c) == c \in Conns /\ conns[c] = "live"

\* C21: no stored session names as host or guest a connection whose
\* disconnect has been handled: every stored host and every stored guest is
\* a live connection, also after the disconnect of a connection that was
\* host of several sessions or guest of several sessions.
C21_PeersLive ==
    \A i \in 1..Len(sessions) :
        /\ Live(sessions[i].host)
        /\ Truthy(sessions[i].guest) => Live(sessions[i].guest)

\* A connection that was host of two sessions left, and both are gone.
C21_Witness ==
    /\ Disconnected
    /\ Cardinality(HostedBefore) = 2
    /\ conns[last.conn] = "gone"
    /\ sessions = <<>>

\* A connection that was guest of two sessions of other hosts left, and both
\* sessions wait for a guest again.
C21_WitnessGuest ==
    /\ Disconnected
    /\ Cardinality(GuestBefore \ HostedBefore) = 2
    /\ Len(sessions) = 2
    /\ \A i \in 1..Len(sessions) : sessions[i].guest = Null

-----------------------------------------------------------------------------
(* What the host is told of its guest slot *)

PairingEvents == {"peer-joined", "peer-disconnected"}

\* The positions of `emitted` that hold a pairing message to h.
PairingTo(h) ==
    {j \in 1..Len(emitted) : emitted[j].to = h /\ emitted[j].event \in PairingEvents}

\* The handler that ran last sent h a pairing message, and the last one is m.
LastPairingIs(h, m) ==
    /\ PairingTo(h) # {}
    /\ emitted[CHOOSE j \in PairingTo(h) : \A k \in PairingTo(h) : k <= j] = m

\* The session sessions[i] was in the store before the handler ran, with the
\* same host and the same guest slot.
SameSlot(i) ==
    /\ MapHas(prev, sessions[i].token)
    /\ MapGet(prev, sessions[i].token).host = sessions[i].host
    /\ MapGet(prev, sessions[i].token).guest = sessions[i].guest

\* The token of sessions[i] named a paired session before the handler ran.
WasPaired(i) ==
    MapHas(prev, sessions[i].token) /\ Truthy(MapGet(prev, sessions[i].token).guest)

\* The host of sessions[i] has been told what the handler that ran last did
\* to the guest slot: a guest put there is announced by a peer-joined naming
\* it, a slot emptied by a peer-disconnected, each the last pairing message
\* the handler sent that host.
HostTold(i) ==
    LET h == sessions[i].host
        g == sessions[i].guest
    IN  /\ (Truthy(g) /\ ~SameSlot(i)) => LastPairingIs(h, PeerJoined(h, g))
        /\ (~Truthy(g) /\ WasPaired(i)) =>
              LastPairingIs(h, Bare(h, "peer-disconnected"))

\* C22 as claimed: the host's view follows the store. Whenever a handler
\* leaves a session with a guest it did not have, the last pairing message
\* to its host is peer-joined with that guest, and whenever it leaves a
\* session that was paired without a guest, the last pairing message to its
\* host is peer-disconnected.
C22_HostView == \A i \in 1..Len(sessions) : HostTold(i)

\* What does hold: the same after every event but a create-session.
HostViewButCreate ==
    last.ev # "create-session" => \A i \in 1..Len(sessions) : HostTold(i)

\* A guest left a session of another host, who was told.
HostViewCleared ==
    /\ Disconnected
    /\ \E i \in 1..Len(sessions) :
          /\ WasPaired(i)
          /\ sessions[i].guest = Null
          /\ LastPairingIs(sessions[i].host, Bare(sessions[i].host, "peer-disconnected"))

-----------------------------------------------------------------------------
(* The page *)

\* C23 as claimed: once peer-joined has come for the session the page
\* created, the timeout started at session-created takes no effect: the
\* page does not go to /scan.html, whenever peer-joined comes relative to
\* the 60 s timer and the 3 s timer that follows it.
C23_NoRedirectOnceJoined == client.joined => client.location # "/scan.html"

\* What does hold: peer-joined leaves no connectionTimeout pending; the
\* timer of the redirect, once started, is out of its reach.
JoinedStopsWait == client.ev = "peer-joined" => client.wait.state # "armed"

\* peer-joined came while the timer of the redirect was pending.
JoinedTooLate ==
    /\ client.ev = "peer-joined"
    /\ client.wait.state = "fired"
    /\ client.redirect # <<>>

\* The offer of caller c is with the page, not yet answered.
Incoming(c) == Task("answer", c) \in client.tasks

\* What the server relays of the message the page emitted last.
Relayed ==
    onHangup(sessions, Me,
             [present |-> TRUE, target |-> client.out[1].target,
              data |-> Undefined]).out

\* C24 as claimed: a decline while an offer of caller c is with the page
\* emits hangup with target c, and the server relays a hangup to c.
C24_DeclineNotifies ==
    client.ev = "decline" =>
        \A c \in Peers :
            Incoming(c) =>
                /\ client.out = <<ClientMsg("hangup", c)>>
                /\ Relayed = <<Msg(c, "hangup", None, "sender", Me, None, None)>>

\* What the decline does: a hangup with no target, which the server drops.
DeclineDropped ==
    client.ev = "decline" =>
        client.out = <<ClientMsg("hangup", Undefined)>> /\ Relayed = <<>>

\* An offer was declined.
DeclineReached == client.ev = "decline" /\ \E c \in Peers : Incoming(c)

====
